---- MODULE Spec2Model ----
(***************************************************************************)
(* The Vibe Projector front end (src/static/js/app.js): the polling loop   *)
(* of class VibeProjector, its network-resilience handlers, the toast      *)
(* timers and the DOM state the handlers write.                            *)
(*                                                                         *)
(* Strings the code inspects or builds (error messages, formatted times,   *)
(* track texts) are sequences of one-character strings, so that            *)
(* String.prototype.includes, padStart and template concatenation are      *)
(* computed on characters.  Timers are untimed: a pending timer may fire   *)
(* at any later step.                                                      *)
(***************************************************************************)
EXTENDS Integers, Sequences, FiniteSets, Bags, TLC

VARIABLES
    started,          \* the DOMContentLoaded handler has constructed the VibeProjector
    tornDown,         \* the beforeunload handler has run cleanup()
    pollTimerActive,  \* the setInterval behind this.pollTimer is live in the browser
    videoTimerActive, \* the setInterval behind this.videoTimer is live in the browser
    inflight,         \* number of fetch('/nowplaying') requests whose promise is pending
    retryCount,       \* this.retryCount
    networkError,     \* this.networkError
    isConnected,      \* this.isConnected
    retryTimers,      \* bag of delays of the pending setTimeout callbacks of handleNetworkError
    toasts,           \* bag of toast elements that are attached or still have a pending timer
    dom,              \* the DOM elements the handlers write
    failRun,          \* history: polls handled as network failures since the last
                      \* successful poll or handled online event (saturates at MaxRun)
    order,            \* history: the order in which the polls were issued and written
    fullscreen,       \* document.fullscreenElement, the browser's pending fullscreen
                      \* requests and the elements updateFullscreenUI writes
    galaxy            \* the GalaxyScene singleton, its container and its frame callbacks

vars == <<started, tornDown, pollTimerActive, videoTimerActive, inflight, retryCount,
          networkError, isConnected, retryTimers, toasts, dom, failRun, order,
          fullscreen, galaxy>>

----------------------------------------------------------------------------
(* Bounds of the model *)

MaxInFlight == 4

MaxRetryTimers == 3

MaxToasts == 1

MaxRemoveTimers == 1

MaxRun == 4

(* Program constants *)

pollInterval == 3000

maxRetries == 3

RetryDelayUnit == 2000

ToastDuration == 5000

----------------------------------------------------------------------------
(* Strings as character sequences *)

FailedToFetch == <<"F","a","i","l","e","d"," ","t","o"," ","f","e","t","c","h">>

LoadFailed == <<"L","o","a","d"," ","f","a","i","l","e","d">>

InternalServerError == <<"I","N","T","E","R","N","A","L"," ","S","E","R","V","E","R"," ","E","R","R","O","R">>

UnexpectedToken == <<"U","n","e","x","p","e","c","t","e","d"," ","t","o","k","e","n"," ","<"," ","i","n"," ","J","S","O","N"," ","a","t"," ","p","o","s","i","t","i","o","n"," ","0">>

UnexpectedToken401 == <<"U","n","e","x","p","e","c","t","e","d"," ","t","o","k","e","n"," ","}"," ","i","n"," ","J","S","O","N"," ","a","t"," ","p","o","s","i","t","i","o","n"," ","4","0","1">>

NoTrackPlaying == <<"N","o"," ","T","r","a","c","k"," ","P","l","a","y","i","n","g">>

StartPlayingMusic == <<"S","t","a","r","t"," ","p","l","a","y","i","n","g"," ","m","u","s","i","c"," ","o","n"," ","S","p","o","t","i","f","y">>

NoDeviceConnected == <<"N","o"," ","d","e","v","i","c","e"," ","c","o","n","n","e","c","t","e","d">>

(* String.prototype.includes: sub occurs in str as a contiguous, case-sensitive run *)
includes(str, sub) ==
    \E i \in 1..(Len(str) - Len(sub) + 1) : SubSeq(str, i, i + Len(sub) - 1) = sub

DigitChar(d) ==
    CASE d = 0 -> "0" [] d = 1 -> "1" [] d = 2 -> "2" [] d = 3 -> "3" [] d = 4 -> "4"
      [] d = 5 -> "5" [] d = 6 -> "6" [] d = 7 -> "7" [] d = 8 -> "8" [] d = 9 -> "9"

RECURSIVE NatToString(_)
NatToString(n) ==
    IF n < 10 THEN <<DigitChar(n)>> ELSE NatToString(n \div 10) \o <<DigitChar(n % 10)>>

(* Number.prototype.toString on an integer *)
toString(n) == IF n < 0 THEN <<"-">> \o NatToString(-n) ELSE NatToString(n)

(* String.prototype.padStart with a one-character pad *)
RECURSIVE padStart(_, _, _)
padStart(str, targetLength, padChar) ==
    IF Len(str) >= targetLength THEN str
    ELSE padStart(<<padChar>> \o str, targetLength, padChar)

(* the JavaScript remainder: the sign of the dividend *)
JsRem(a, b) == IF a >= 0 THEN a % b ELSE -((-a) % b)

----------------------------------------------------------------------------
(* The program state the handlers read and write, as one record *)

This ==
    [ pollTimerActive  |-> pollTimerActive,
      videoTimerActive |-> videoTimerActive,
      inflight         |-> inflight,
      retryCount       |-> retryCount,
      networkError     |-> networkError,
      isConnected      |-> isConnected,
      retryTimers      |-> retryTimers,
      toasts           |-> toasts,
      dom              |-> dom ]

Commit(s) ==
    /\ pollTimerActive' = s.pollTimerActive
    /\ videoTimerActive' = s.videoTimerActive
    /\ inflight' = s.inflight
    /\ retryCount' = s.retryCount
    /\ networkError' = s.networkError
    /\ isConnected' = s.isConnected
    /\ retryTimers' = s.retryTimers
    /\ toasts' = s.toasts
    /\ dom' = s.dom

(* Content and style the page's markup and stylesheet give an element before *)
(* any handler has written it (index.html and style.css set them).           *)
Markup == <<>>

Stylesheet == "stylesheet"

InitialDom ==
    [ statusBadge       |-> Stylesheet,
      statusText        |-> "",
      mainCard          |-> Stylesheet,
      connectSection    |-> Stylesheet,
      loadingOverlay    |-> Stylesheet,
      errorOverlay      |-> Stylesheet,
      errorMessage      |-> Markup,
      trackTitle        |-> Markup,
      trackArtist       |-> Markup,
      coverImage        |-> Stylesheet,
      coverPlaceholder  |-> Stylesheet,
      deviceInfo        |-> Markup,
      progressContainer |-> Stylesheet,
      progressFill      |-> [num |-> 0, den |-> 1],
      currentTime       |-> Markup,
      totalTime         |-> Markup ]

----------------------------------------------------------------------------
(* Toasts *)

(* removals is history: how many times removeChild has been called on the toast *)
NewToast(type) ==
    [type |-> type, attached |-> TRUE, removing |-> FALSE, autoTimer |-> TRUE,
     removeTimers |-> 0, removals |-> 0]

(* showToast: a toast element of class `toast <type>` is appended to the    *)
(* container and its auto-dismiss timer (duration 5000 > 0) is started.     *)
(* The message text is not kept.                                            *)
showToast(s, type) ==
    [s EXCEPT !.toasts = @ (+) SetToBag({NewToast(type)})]

(* a toast element with no parent and no pending timer is garbage *)
Live(t) == t.attached \/ t.autoTimer \/ t.removeTimers > 0

ReplaceToast(bag, t, u) ==
    IF Live(u) THEN (bag (-) SetToBag({t})) (+) SetToBag({u}) ELSE bag (-) SetToBag({t})

(* removeToast: add class `removing`, start the 300 ms detach timer *)
removeToast(t) ==
    [t EXCEPT !.removing = TRUE, !.removeTimers = @ + 1]

(* mutant of detachToast: removeChild without the parentNode check *)
detachToastUnchecked(t) ==
    [t EXCEPT !.removeTimers = @ - 1, !.attached = FALSE, !.removals = @ + 1]

(* the 300 ms callback of removeToast: detach if the toast still has a parent *)
detachToast(t) ==
    IF t.attached
    THEN [t EXCEPT !.removeTimers = @ - 1, !.attached = FALSE, !.removals = @ + 1]
    ELSE [t EXCEPT !.removeTimers = @ - 1]

----------------------------------------------------------------------------
(* updateStatus *)

StatusLabel(status) ==
    CASE status = "playing"         -> "Now Playing"
      [] status = "paused"          -> "Paused"
      [] status = "connecting"      -> "Connecting..."
      [] status = "nothing-playing" -> "Nothing Playing"
      [] status = "network-error"   -> "Network Error"
      [] status = "disconnected"    -> "Not Connected"

updateStatus(s, status) ==
    [s EXCEPT !.dom.statusBadge = status, !.dom.statusText = StatusLabel(status)]

----------------------------------------------------------------------------
(* Progress and track panel *)

(* mutant of formatTime: the seconds are not padded *)
formatTimeUnpadded(ms) ==
    LET seconds == ms \div 1000
        minutes == seconds \div 60
        remainingSeconds == JsRem(seconds, 60)
    IN  toString(minutes) \o <<":">> \o toString(remainingSeconds)

formatTime(ms) ==
    LET seconds == ms \div 1000
        minutes == seconds \div 60
        remainingSeconds == JsRem(seconds, 60)
    IN  toString(minutes) \o <<":">> \o padStart(toString(remainingSeconds), 2, "0")

Has(data, field) == field \in DOMAIN data

(* JavaScript truthiness of a string-valued field: present and not empty *)
TruthyText(data, field) == Has(data, field) /\ Len(data[field]) > 0

(* style.width = `${progressPercent}%`: the percentage is progressMs * 100 /  *)
(* durationMs, kept as a fraction; CSS rejects a negative width, and the     *)
(* assignment of a rejected value leaves the style as it was.                *)
setWidth(fill, num, den) ==
    IF num >= 0 THEN [num |-> num, den |-> den] ELSE fill

(* mutant of updateProgress: a zero duration is let through the guard *)
updateProgressZeroShown(s, data) ==
    IF Has(data, "durationMs") /\ data.durationMs >= 0
    THEN [s EXCEPT !.dom.progressFill = [num |-> 0, den |-> 1],
                   !.dom.currentTime = formatTime(data.progressMs),
                   !.dom.totalTime = formatTime(data.durationMs),
                   !.dom.progressContainer = "block"]
    ELSE [s EXCEPT !.dom.progressContainer = "none"]

updateProgress(s, data) ==
    IF Has(data, "durationMs") /\ data.durationMs > 0
    THEN [s EXCEPT !.dom.progressFill = setWidth(@, data.progressMs * 100, data.durationMs),
                   !.dom.currentTime = formatTime(data.progressMs),
                   !.dom.totalTime = formatTime(data.durationMs),
                   !.dom.progressContainer = "block"]
    ELSE [s EXCEPT !.dom.progressContainer = "none"]

updateTrackInfo(s, data) ==
    LET t == [s EXCEPT !.dom.trackTitle = data.title, !.dom.trackArtist = data.artist]
    IN  IF TruthyText(data, "coverUrl")
        THEN [t EXCEPT !.dom.coverImage = "block", !.dom.coverPlaceholder = "none"]
        ELSE [t EXCEPT !.dom.coverImage = "none", !.dom.coverPlaceholder = "flex"]

showMainCard(s) ==
    [s EXCEPT !.dom.mainCard = "block", !.dom.connectSection = "none"]

showNoTrackState(s) ==
    showMainCard([s EXCEPT !.dom.trackTitle = NoTrackPlaying,
                           !.dom.trackArtist = StartPlayingMusic,
                           !.dom.coverImage = "none",
                           !.dom.coverPlaceholder = "flex",
                           !.dom.progressContainer = "none",
                           !.dom.deviceInfo = NoDeviceConnected])

----------------------------------------------------------------------------
(* Error handlers *)

network == <<"n","e","t","w","o","r","k">>

fetch == <<"f","e","t","c","h">>

unauthorized == <<"u","n","a","u","t","h","o","r","i","z","e","d">>

FourOhOne == <<"4","0","1">>

IsNetworkMessage(message) == includes(message, network) \/ includes(message, fetch)

IsUnauthorizedMessage(message) == includes(message, unauthorized) \/ includes(message, FourOhOne)

(* mutant of handleUnauthorized: the 401 is booked as a failed attempt *)
handleUnauthorizedCountsRetry(s) ==
    LET a == [s EXCEPT !.dom.loadingOverlay = "none",
                       !.dom.mainCard = "none",
                       !.dom.connectSection = "block",
                       !.retryCount = @ + 1]
        b == showToast(updateStatus(a, "disconnected"), "warning")
    IN  [b EXCEPT !.isConnected = FALSE]

handleUnauthorized(s) ==
    LET a == [s EXCEPT !.dom.loadingOverlay = "none",
                       !.dom.mainCard = "none",
                       !.dom.connectSection = "block"]
        b == showToast(updateStatus(a, "disconnected"), "warning")
    IN  [b EXCEPT !.isConnected = FALSE]

(* mutant of handleNetworkError: giving up also clears the poll interval *)
handleNetworkErrorStopsPolling(s) ==
    LET a == [s EXCEPT !.networkError = TRUE, !.retryCount = @ + 1]
    IN  IF a.retryCount <= maxRetries
        THEN [showToast(updateStatus(a, "network-error"), "warning")
                EXCEPT !.retryTimers = @ (+) SetToBag({RetryDelayUnit * a.retryCount})]
        ELSE [updateStatus(showToast(a, "error"), "network-error")
                EXCEPT !.pollTimerActive = FALSE]

handleNetworkError(s) ==
    LET a == [s EXCEPT !.networkError = TRUE, !.retryCount = @ + 1]
    IN  IF a.retryCount <= maxRetries
        THEN [showToast(updateStatus(a, "network-error"), "warning")
                EXCEPT !.retryTimers = @ (+) SetToBag({RetryDelayUnit * a.retryCount})]
        ELSE updateStatus(showToast(a, "error"), "network-error")

(* mutant of handleError: an unclassified error is shown as a warning *)
handleErrorWarns(s, message) ==
    LET a == [s EXCEPT !.dom.loadingOverlay = "none"]
        b == IF IsNetworkMessage(message) THEN handleNetworkError(a)
             ELSE IF IsUnauthorizedMessage(message) THEN handleUnauthorized(a)
             ELSE showToast(a, "warning")
    IN  IF IsNetworkMessage(message)
        THEN [b EXCEPT !.dom.errorMessage = message, !.dom.errorOverlay = "flex"]
        ELSE b

handleError(s, message) ==
    LET a == [s EXCEPT !.dom.loadingOverlay = "none"]
        b == IF IsNetworkMessage(message) THEN handleNetworkError(a)
             ELSE IF IsUnauthorizedMessage(message) THEN handleUnauthorized(a)
             ELSE showToast(a, "error")
    IN  IF IsNetworkMessage(message)
        THEN [b EXCEPT !.dom.errorMessage = message, !.dom.errorOverlay = "flex"]
        ELSE b

----------------------------------------------------------------------------
(* The poll *)

(* fetchNowPlaying up to its first await: the counters are cleared and the *)
(* request is issued.                                                       *)
fetchNowPlaying(s) ==
    [s EXCEPT !.retryCount = 0, !.networkError = FALSE, !.inflight = @ + 1]

(* mutant of updateUI: data.isPlaying is not consulted *)
updateUIAlwaysPlaying(s, data) ==
    IF TruthyText(data, "error") THEN handleError(s, data.error)
    ELSE
      LET a == [s EXCEPT !.dom.loadingOverlay = "none"]
          b == IF TruthyText(data, "title") /\ TruthyText(data, "artist")
               THEN showMainCard(updateTrackInfo(
                        showToast(updateStatus(a, "playing"), "success"), data))
               ELSE showNoTrackState(showToast(updateStatus(a, "nothing-playing"), "info"))
          c == updateProgress(b, data)
          d == IF TruthyText(data, "deviceName")
               THEN [c EXCEPT !.dom.deviceInfo = data.deviceName]
               ELSE c
      IN  [d EXCEPT !.isConnected = TRUE]

updateUI(s, data) ==
    IF TruthyText(data, "error") THEN handleError(s, data.error)
    ELSE
      LET a == [s EXCEPT !.dom.loadingOverlay = "none"]
          b == IF TruthyText(data, "title") /\ TruthyText(data, "artist")
               THEN showMainCard(updateTrackInfo(
                        IF data.isPlaying
                        THEN showToast(updateStatus(a, "playing"), "success")
                        ELSE showToast(updateStatus(a, "paused"), "info"),
                        data))
               ELSE showNoTrackState(showToast(updateStatus(a, "nothing-playing"), "info"))
          c == updateProgress(b, data)
          d == IF TruthyText(data, "deviceName")
               THEN [c EXCEPT !.dom.deviceInfo = data.deviceName]
               ELSE c
      IN  [d EXCEPT !.isConnected = TRUE]

ok(response) == response.status >= 200 /\ response.status <= 299

(* the message of the Error thrown for a response that is not ok *)
HttpErrorMessage(response) ==
    <<"H","T","T","P"," ">> \o toString(response.status) \o <<":"," ">> \o response.statusText

(* fetchNowPlaying from the settling of the request to its end *)
fetchSettled(s, o) ==
    IF o.kind = "reject" THEN handleError(s, o.message)
    ELSE IF o.response.status = 401 THEN handleUnauthorized(s)
    ELSE IF ~ok(o.response) THEN handleError(s, HttpErrorMessage(o.response))
    ELSE IF Has(o.response.body, "syntaxError") THEN handleError(s, o.response.body.syntaxError)
    ELSE updateUI(s, o.response.body.json)

(* mutant of handleNetworkOnline: the networkError guard is dropped *)
handleNetworkOnlineUnguarded(s) ==
    fetchNowPlaying(updateStatus(
        showToast([s EXCEPT !.networkError = FALSE, !.retryCount = 0], "success"),
        "connecting"))

handleNetworkOnline(s) ==
    IF s.networkError
    THEN fetchNowPlaying(updateStatus(
             showToast([s EXCEPT !.networkError = FALSE, !.retryCount = 0], "success"),
             "connecting"))
    ELSE s

(* mutant of handleNetworkOffline: the event is only announced *)
handleNetworkOfflineAnnounced(s) ==
    showToast(s, "error")

handleNetworkOffline(s) ==
    updateStatus(showToast([s EXCEPT !.networkError = TRUE], "error"), "network-error")

(* mutant of retryCallback: the callback polls whatever networkError is *)
retryCallbackUnguarded(s) ==
    fetchNowPlaying(s)

(* the callback of the retry timer set by handleNetworkError *)
retryCallback(s) ==
    IF s.networkError THEN fetchNowPlaying(s) ELSE s

(* mutant of startPolling: the first poll waits for the first tick *)
startPollingAtFirstTick(s) ==
    [s EXCEPT !.pollTimerActive = TRUE, !.videoTimerActive = TRUE]

startPolling(s) ==
    fetchNowPlaying([s EXCEPT !.pollTimerActive = TRUE, !.videoTimerActive = TRUE])

cleanup(s) ==
    [s EXCEPT !.pollTimerActive = FALSE, !.videoTimerActive = FALSE]

----------------------------------------------------------------------------
(* What a poll can be answered with *)

(* the message of the TypeError a failed fetch rejects with: Chromium's and *)
(* WebKit's                                                                 *)
TransportMessages == {FailedToFetch, LoadFailed}

Rejections == [kind : {"reject"}, message : TransportMessages]

Snapshots ==
    { [isPlaying |-> TRUE, title |-> <<"A">>, artist |-> <<"B">>, coverUrl |-> <<"u">>,
       deviceName |-> <<"D">>, progressMs |-> 65000, durationMs |-> 600000],
      [isPlaying |-> FALSE, progressMs |-> 0, durationMs |-> 0],
      [error |-> unauthorized] }

(* the messages of the SyntaxError response.json() rejects with *)
ParseMessages == {UnexpectedToken, UnexpectedToken401}

Responses ==
    { [status |-> 401, statusText |-> <<>>],
      [status |-> 500, statusText |-> InternalServerError] }
    \cup { [status |-> 200, statusText |-> <<>>, body |-> [json |-> d]] : d \in Snapshots }
    \cup { [status |-> 200, statusText |-> <<>>, body |-> [syntaxError |-> m]] :
             m \in ParseMessages }

Outcomes == Rejections \cup [kind : {"response"}, response : Responses]

(* how fetchSettled routes an outcome *)
ErrorMessage(o) ==
    IF o.kind = "reject" THEN o.message
    ELSE IF ~ok(o.response) THEN HttpErrorMessage(o.response)
    ELSE IF Has(o.response.body, "syntaxError") THEN o.response.body.syntaxError
    ELSE o.response.body.json.error

IsSuccess(o) ==
    /\ o.kind = "response"
    /\ ok(o.response)
    /\ Has(o.response.body, "json")
    /\ ~TruthyText(o.response.body.json, "error")

Is401(o) == o.kind = "response" /\ o.response.status = 401

HandledAsNetworkFailure(o) ==
    /\ ~IsSuccess(o)
    /\ ~Is401(o)
    /\ IsNetworkMessage(ErrorMessage(o))

----------------------------------------------------------------------------
(* Fullscreen: document.fullscreenElement, the requests the page has made   *)
(* and the browser has not yet carried out, and what updateFullscreenUI     *)
(* writes (the icon of the toggle, the display of the controls).            *)

InitialFullscreen ==
    [ element  |-> FALSE,
      requests |-> <<>>,
      icon     |-> "markup",
      controls |-> Stylesheet ]

----------------------------------------------------------------------------
(* The GalaxyScene singleton of src/unnamed/part_000 *)

InitialGalaxy ==
    [ isInitialized  |-> FALSE,
      container      |-> FALSE,
      renderer       |-> FALSE,
      scene          |-> FALSE,
      resizeObserver |-> FALSE,
      animationId    |-> 0,
      lastFrameTime  |-> 0,
      clock          |-> 0,
      frames         |-> {},
      canvases       |-> 0,
      returned       |-> "none" ]

----------------------------------------------------------------------------
(* History of the polls: how many were issued, which are pending, and which *)
(* poll the display was last written from (0: none yet).                    *)

InitialOrder == [issued |-> 0, pending |-> {}, written |-> 0]

----------------------------------------------------------------------------
(* The state machine *)

Init ==
    /\ started = FALSE
    /\ tornDown = FALSE
    /\ pollTimerActive = FALSE
    /\ videoTimerActive = FALSE
    /\ inflight = 0
    /\ retryCount = 0
    /\ networkError = FALSE
    /\ isConnected = FALSE
    /\ retryTimers = EmptyBag
    /\ toasts = EmptyBag
    /\ dom = InitialDom
    /\ failRun = 0
    /\ order = InitialOrder
    /\ fullscreen = InitialFullscreen
    /\ galaxy = InitialGalaxy

(* the bounds of the model, on the state an action leads to *)
WithinBounds(s) ==
    /\ s.inflight <= MaxInFlight
    /\ BagCardinality(s.retryTimers) <= MaxRetryTimers
    /\ BagCardinality(s.toasts) <= MaxToasts

Bounded(s) == WithinBounds(s) /\ Commit(s)

ToastFrame ==
    UNCHANGED <<started, tornDown, pollTimerActive, videoTimerActive, inflight, retryCount,
                networkError, isConnected, retryTimers, dom, failRun, order,
                fullscreen, galaxy>>

(* DOMContentLoaded: new VibeProjector() *)
StartupStep ==
    /\ ~started
    /\ started' = TRUE
    /\ Bounded(startPolling(This))
    /\ UNCHANGED <<tornDown, failRun, fullscreen, galaxy>>

Startup == StartupStep /\ UNCHANGED order

(* a tick of the poll interval *)
PollTickStep ==
    /\ started
    /\ pollTimerActive
    /\ Bounded(fetchNowPlaying(This))
    /\ UNCHANGED <<started, tornDown, failRun, fullscreen, galaxy>>

PollTick == PollTickStep /\ UNCHANGED order

(* a pending request settles with outcome o *)
SettleStep(o) ==
    /\ inflight > 0
    /\ Bounded(fetchSettled([This EXCEPT !.inflight = @ - 1], o))
    /\ UNCHANGED <<started, tornDown, fullscreen, galaxy>>

Settle(o) == SettleStep(o) /\ UNCHANGED <<failRun, order>>

(* a retry timer of handleNetworkError fires *)
RetryFire(delay) ==
    /\ BagIn(delay, retryTimers)
    /\ Bounded(retryCallback([This EXCEPT !.retryTimers = @ (-) SetToBag({delay})]))
    /\ UNCHANGED <<started, tornDown, failRun, order, fullscreen, galaxy>>

(* the browser's online event *)
OnlineStep ==
    /\ started
    /\ Bounded(handleNetworkOnline(This))
    /\ UNCHANGED <<started, tornDown, fullscreen, galaxy>>

Online == OnlineStep /\ UNCHANGED <<failRun, order>>

(* the browser's offline event *)
Offline ==
    /\ started
    /\ Bounded(handleNetworkOffline(This))
    /\ UNCHANGED <<started, tornDown, failRun, order, fullscreen, galaxy>>

(* beforeunload: projector.cleanup() *)
Cleanup ==
    /\ started
    /\ tornDown' = TRUE
    /\ Bounded(cleanup(This))
    /\ UNCHANGED <<started, failRun, order, fullscreen, galaxy>>

(* the auto-dismiss timer of toast t fires: removeToast(t) *)
ToastAutoDismiss(t) ==
    /\ BagIn(t, toasts)
    /\ t.autoTimer
    /\ t.removeTimers < MaxRemoveTimers
    /\ toasts' = ReplaceToast(toasts, t, removeToast([t EXCEPT !.autoTimer = FALSE]))
    /\ ToastFrame

(* the user clicks the close button of toast t: removeToast(t) *)
ToastClose(t) ==
    /\ BagIn(t, toasts)
    /\ t.attached
    /\ t.removeTimers < MaxRemoveTimers
    /\ toasts' = ReplaceToast(toasts, t, removeToast(t))
    /\ ToastFrame

(* a 300 ms timer of removeToast fires for toast t *)
ToastDetach(t) ==
    /\ BagIn(t, toasts)
    /\ t.removeTimers > 0
    /\ toasts' = ReplaceToast(toasts, t, detachToast(t))
    /\ ToastFrame

Next ==
    \/ Startup
    \/ PollTick
    \/ \E o \in Outcomes : Settle(o)
    \/ \E delay \in BagToSet(retryTimers) : RetryFire(delay)
    \/ Online
    \/ Offline
    \/ Cleanup
    \/ \E t \in BagToSet(toasts) : ToastAutoDismiss(t)
    \/ \E t \in BagToSet(toasts) : ToastClose(t)
    \/ \E t \in BagToSet(toasts) : ToastDetach(t)

Spec == Init /\ [][Next]_vars

(* Timers fire: the page loads and the poll interval keeps ticking. *)
SpecLive == Spec /\ WF_vars(Startup) /\ WF_vars(PollTick)

----------------------------------------------------------------------------
(* The same program with the history variable failRun kept, in the          *)
(* environment the design assumes: every request settles before the next    *)
(* timer or online event issues a poll, so polls never overlap.             *)

Bump(n) == IF n < MaxRun THEN n + 1 ELSE MaxRun

Idle == inflight = 0

SettleCounted(o) ==
    /\ SettleStep(o)
    /\ failRun' = IF IsSuccess(o) THEN 0
                  ELSE IF HandledAsNetworkFailure(o) THEN Bump(failRun)
                  ELSE failRun
    /\ UNCHANGED order

OnlineCounted ==
    /\ Idle
    /\ OnlineStep
    /\ failRun' = IF networkError THEN 0 ELSE failRun
    /\ UNCHANGED order

NextRun ==
    \/ Startup
    \/ Idle /\ PollTick
    \/ \E o \in Outcomes : SettleCounted(o)
    \/ \E delay \in BagToSet(retryTimers) : Idle /\ RetryFire(delay)
    \/ OnlineCounted
    \/ Offline
    \/ Cleanup
    \/ \E t \in BagToSet(toasts) : ToastAutoDismiss(t)
    \/ \E t \in BagToSet(toasts) : ToastClose(t)
    \/ \E t \in BagToSet(toasts) : ToastDetach(t)

SpecRun == Init /\ [][NextRun]_vars

----------------------------------------------------------------------------
(* Properties *)

(* C1: in a run of consecutive network-failed polls with no successful poll *)
(* or online event in between, the k-th failure (k = 1, 2, 3) schedules     *)
(* exactly one retry poll, with delay 2000 * k ms.                          *)
C1_RetryDelaysFollowRun ==
    [][(failRun' = failRun + 1 /\ failRun' <= maxRetries)
         => retryTimers' = retryTimers (+) SetToBag({RetryDelayUnit * failRun'})]_vars

(* C2: the 4th consecutive network failure schedules no retry and leaves    *)
(* the state in NetworkError with the terminal error toast.                 *)
C2_FourthFailureIsTerminal ==
    [][(failRun = maxRetries /\ failRun' = maxRetries + 1)
         => /\ retryTimers' = retryTimers
            /\ dom'.statusBadge = "network-error"
            /\ toasts' = toasts (+) SetToBag({NewToast("error")})]_vars

(* C3: retryCount is reset only by a successful poll or the handled online  *)
(* event and grows by one per network-failed poll: it equals the number of  *)
(* network-failed polls since the last success or online event.             *)
C3_RetryCountCountsRun ==
    failRun < MaxRun => retryCount = failRun

(* C4: at most one request to /nowplaying is in flight at any time.         *)
C4_OnePollInFlight ==
    inflight <= 1

(* C5: in every state whose ConnectionState is NetworkError, the online     *)
(* event sets retryCount to 0, makes the state connecting and issues a poll *)
(* in the same step.                                                        *)
C5_OnlineRestartsFromNetworkError ==
    (started /\ dom.statusBadge = "network-error" /\ ENABLED OnlineStep)
      => ENABLED (/\ OnlineStep
                  /\ retryCount' = 0
                  /\ dom'.statusBadge = "connecting"
                  /\ inflight' = inflight + 1)

(* C6: after cleanup has run no timer callback fires: neither the poll      *)
(* interval, nor a retry timer, nor a toast's dismiss or detach timer.      *)
C6_NoTimerAfterTeardown ==
    [][tornDown
         => ~ \/ PollTick
              \/ \E delay \in BagToSet(retryTimers) : RetryFire(delay)
              \/ \E t \in BagToSet(toasts) : ToastAutoDismiss(t)
              \/ \E t \in BagToSet(toasts) : ToastDetach(t)]_vars

(* C7: a poll answered with 401 makes the state Unauthorized (status        *)
(* disconnected, connect panel shown, track panel hidden) from any state,   *)
(* leaves retryCount and the network-error condition as they were and       *)
(* schedules no retry timer.                                                *)
C7_Unauthorized401 ==
    [][\A o \in Outcomes :
          (Is401(o) /\ SettleStep(o))
            => /\ dom'.statusBadge = "disconnected"
               /\ dom'.connectSection = "block"
               /\ dom'.mainCard = "none"
               /\ retryCount' = retryCount
               /\ networkError' = networkError
               /\ retryTimers' = retryTimers]_vars

(* a 401 has been answered while retryCount was positive and a retry timer  *)
(* was pending                                                              *)
C7_Witness ==
    /\ dom.statusBadge = "disconnected"
    /\ retryCount > 0
    /\ networkError
    /\ BagCardinality(retryTimers) > 0

(* C8: every poll whose fetch rejects is handled as a network failure: the  *)
(* network-error condition is set, retryCount grows by one and the state    *)
(* becomes NetworkError, whatever the message.                              *)
C8_TransportFailureIsNetworkFailure ==
    [][\A o \in Rejections :
          SettleStep(o)
            => /\ networkError'
               /\ retryCount' = retryCount + 1
               /\ dom'.statusBadge = "network-error"]_vars

IsUpstreamOrMalformed(o) ==
    /\ o.kind = "response"
    /\ ~Is401(o)
    /\ \/ ~ok(o.response)
       \/ Has(o.response.body, "syntaxError")

(* C9: a poll answered with a non-2xx status other than 401, or with an     *)
(* unparsable body, shows exactly one error toast, schedules no retry, does *)
(* not change retryCount and does not enter NetworkError or Unauthorized.   *)
C9_UpstreamErrorIsOnlyAToast ==
    [][\A o \in Outcomes :
          (IsUpstreamOrMalformed(o) /\ SettleStep(o))
            => /\ toasts' = toasts (+) SetToBag({NewToast("error")})
               /\ retryTimers' = retryTimers
               /\ retryCount' = retryCount
               /\ dom'.statusBadge \in {"network-error", "disconnected"}
                    => dom'.statusBadge = dom.statusBadge]_vars

(* C10: until cleanup runs the poll interval stays armed, whatever the      *)
(* polls were answered with, and it keeps issuing polls (as far as the      *)
(* model's cap on requests in flight lets it).                              *)
C10_PollingNeverStops ==
    /\ [](started /\ ~tornDown => pollTimerActive)
    /\ \/ <>tornDown
       \/ []<>(inflight = MaxInFlight)
       \/ []<><<PollTick>>_vars

(* the retry budget is exhausted and the poll interval is still armed       *)
C10_Witness ==
    /\ started
    /\ ~tornDown
    /\ pollTimerActive
    /\ retryCount > maxRetries
    /\ dom.statusBadge = "network-error"

----------------------------------------------------------------------------
(* One event handled from each of a range of states the page can be in:     *)
(* the reconciliation of a poll's outcome (fetchNowPlaying after its await, *)
(* updateUI and the handlers under it) over a wider range of response       *)
(* bodies, and the online and offline events.                               *)

(* title and artist of a body: both, one of them, neither, an empty title *)
TrackTexts ==
    { [title |-> <<"A">>, artist |-> <<"B">>, coverUrl |-> <<"u">>, deviceName |-> <<"D">>],
      [title |-> <<"A">>],
      [artist |-> <<"B">>],
      [deviceName |-> <<"D">>],
      [title |-> <<>>, artist |-> <<"B">>] }

(* progressMs and durationMs of a body: inside the track, past its end,     *)
(* negative, and a duration that is zero, negative or missing               *)
Positions ==
    { [progressMs |-> 5000, durationMs |-> 65000],
      [progressMs |-> 70000, durationMs |-> 65000],
      [progressMs |-> -1000, durationMs |-> 65000],
      [progressMs |-> 0, durationMs |-> 0],
      [progressMs |-> 5000, durationMs |-> -1],
      [progressMs |-> 5000] }

SnapshotsUI ==
    { [isPlaying |-> b] @@ t @@ p : b \in BOOLEAN, t \in TrackTexts, p \in Positions }

ErrorBodies ==
    { [error |-> unauthorized],
      [error |-> InternalServerError],
      [error |-> FailedToFetch, title |-> <<"A">>, artist |-> <<"B">>, isPlaying |-> TRUE,
       progressMs |-> 5000, durationMs |-> 65000] }

OutcomesUI ==
    Outcomes
    \cup { [kind |-> "response",
            response |-> [status |-> 200, statusText |-> <<>>, body |-> [json |-> d]]] :
             d \in SnapshotsUI \cup ErrorBodies }

(* the fields of a VibeProjector before its constructor has run startPolling *)
InitialThis ==
    [ pollTimerActive  |-> FALSE,
      videoTimerActive |-> FALSE,
      inflight         |-> 0,
      retryCount       |-> 0,
      networkError     |-> FALSE,
      isConnected      |-> FALSE,
      retryTimers      |-> EmptyBag,
      toasts           |-> EmptyBag,
      dom              |-> InitialDom ]

(* every toast has been dismissed and detached *)
ToastsGone(s) == [s EXCEPT !.toasts = EmptyBag]

(* a pending request settles with outcome o and its toast goes *)
Settled(s, o) == ToastsGone(fetchSettled([s EXCEPT !.inflight = @ - 1], o))

Rejected == [kind |-> "reject", message |-> FailedToFetch]

(* startup, three ticks of the interval while the first request is pending, *)
(* then three of the four requests reject: one failure short of the budget  *)
BudgetSpent ==
    LET a == fetchNowPlaying(fetchNowPlaying(fetchNowPlaying(startPolling(InitialThis))))
    IN  Settled(Settled(Settled(a, Rejected), Rejected), Rejected)

(* States with a request pending and no toast on screen: after startup;     *)
(* after the first poll was answered and the next was issued; after an      *)
(* offline event; with the retry budget spent.                              *)
PriorStates ==
    {startPolling(InitialThis)}
    \cup { fetchNowPlaying(Settled(startPolling(InitialThis), o)) : o \in OutcomesUI }
    \cup { ToastsGone(handleNetworkOffline(startPolling(InitialThis))) }
    \cup { BudgetSpent }

Load(s) ==
    /\ pollTimerActive = s.pollTimerActive
    /\ videoTimerActive = s.videoTimerActive
    /\ inflight = s.inflight
    /\ retryCount = s.retryCount
    /\ networkError = s.networkError
    /\ isConnected = s.isConnected
    /\ retryTimers = s.retryTimers
    /\ toasts = s.toasts
    /\ dom = s.dom

InitUI ==
    /\ started = TRUE
    /\ tornDown = FALSE
    /\ failRun = 0
    /\ order = InitialOrder
    /\ fullscreen = InitialFullscreen
    /\ galaxy = InitialGalaxy
    /\ \E s \in PriorStates : Load(s)

NextUI ==
    \/ \E o \in OutcomesUI : Settle(o)
    \/ Online
    \/ Offline

SpecUI == InitUI /\ [][NextUI]_vars

HasTitleAndArtist(data) == TruthyText(data, "title") /\ TruthyText(data, "artist")

(* C11: a successful poll whose body has no error makes the state Playing   *)
(* iff title and artist are there (not null, not empty) and isPlaying is    *)
(* true, Paused iff they are there and isPlaying is false, NothingPlaying   *)
(* with the placeholder texts iff one of them is missing, from any state.   *)
C11_SnapshotDecidesState ==
    [][\A o \in OutcomesUI :
          (IsSuccess(o) /\ SettleStep(o))
            => LET data == o.response.body.json
               IN  /\ dom'.statusBadge = "playing"
                        <=> (HasTitleAndArtist(data) /\ data.isPlaying)
                   /\ dom'.statusBadge = "paused"
                        <=> (HasTitleAndArtist(data) /\ ~data.isPlaying)
                   /\ dom'.statusBadge = "nothing-playing" <=> ~HasTitleAndArtist(data)
                   /\ ~HasTitleAndArtist(data)
                        => /\ dom'.trackTitle = NoTrackPlaying
                           /\ dom'.trackArtist = StartPlayingMusic]_vars

(* a paused track has been reconciled over the state a network failure left *)
C11_Witness ==
    /\ dom.statusBadge = "paused"
    /\ dom.errorOverlay = "flex"
    /\ retryTimers # EmptyBag

(* C12: the offline event sets the network-error condition and makes the    *)
(* state NetworkError in the step that handles it, from any state, with the *)
(* pending requests left pending.                                           *)
C12_OfflineIsImmediate ==
    [][Offline
         => /\ networkError'
            /\ dom'.statusBadge = "network-error"
            /\ inflight' = inflight]_vars

(* the network-error condition is set with no failed poll counted: only the *)
(* offline event leaves this, here while a request is pending and the track *)
(* panel is shown                                                           *)
C12_Witness ==
    /\ networkError
    /\ retryCount = 0
    /\ dom.statusBadge = "network-error"
    /\ dom.mainCard = "block"
    /\ inflight > 0

(* C13: a retry timer that fires while the network-error condition is not   *)
(* set issues no poll and changes nothing (but is spent); one that fires    *)
(* while it is set issues a poll.                                           *)
C13_RetryChecksAtFireTime ==
    [][\A delay \in BagToSet(retryTimers) :
          RetryFire(delay)
            => IF networkError
               THEN inflight' = inflight + 1
               ELSE UNCHANGED <<pollTimerActive, videoTimerActive, inflight, retryCount,
                                networkError, isConnected, toasts, dom>>]_vars

(* a retry timer is pending and the condition has been cleared: a later     *)
(* poll was answered with a playing track                                   *)
C13_Witness ==
    /\ retryTimers # EmptyBag
    /\ ~networkError
    /\ dom.statusBadge = "playing"
    /\ ENABLED (\E delay \in BagToSet(retryTimers) : RetryFire(delay))

(* C14: an online event while the network-error condition is not set        *)
(* changes nothing: no field, no element, no toast, no poll.                *)
C14_OnlineWithoutErrorIsNoOp ==
    [][(~networkError /\ OnlineStep)
         => UNCHANGED <<pollTimerActive, videoTimerActive, inflight, retryCount,
                        networkError, isConnected, retryTimers, toasts, dom>>]_vars

(* the page is up, the condition is not set and the online event can be     *)
(* handled, here with the badge still showing the last network error        *)
C14_Witness ==
    /\ started
    /\ ~networkError
    /\ dom.statusBadge = "network-error"
    /\ ENABLED OnlineStep

IsErrorBody(o) ==
    /\ o.kind = "response"
    /\ ok(o.response)
    /\ Has(o.response.body, "json")
    /\ TruthyText(o.response.body.json, "error")

(* C15: a 2xx response whose body carries an error is handled by the error  *)
(* handler only: the state does not become Playing, Paused or               *)
(* NothingPlaying, the track texts, cover, device and progress are not      *)
(* written and isConnected is left as it was.                               *)
C15_ErrorBodyOnlyToErrorHandler ==
    [][\A o \in OutcomesUI :
          (IsErrorBody(o) /\ SettleStep(o))
            => /\ dom'.statusBadge \in {"playing", "paused", "nothing-playing"}
                    => dom'.statusBadge = dom.statusBadge
               /\ dom'.trackTitle = dom.trackTitle
               /\ dom'.trackArtist = dom.trackArtist
               /\ dom'.coverImage = dom.coverImage
               /\ dom'.coverPlaceholder = dom.coverPlaceholder
               /\ dom'.deviceInfo = dom.deviceInfo
               /\ dom'.progressContainer = dom.progressContainer
               /\ dom'.progressFill = dom.progressFill
               /\ dom'.currentTime = dom.currentTime
               /\ dom'.totalTime = dom.totalTime
               /\ isConnected' = isConnected]_vars

ToastTypes == {"success", "info", "warning", "error"}

ReconciledAsUnauthorized(o) ==
    \/ Is401(o)
    \/ /\ ~IsSuccess(o)
       /\ ~IsNetworkMessage(ErrorMessage(o))
       /\ IsUnauthorizedMessage(ErrorMessage(o))

(* C16: each reconciled outcome of a poll shows exactly one toast: success  *)
(* for Playing, info for Paused and NothingPlaying, warning for             *)
(* Unauthorized and for a network failure that is retried, error for every  *)
(* other error; the offline event, and the online event handled with the    *)
(* network-error condition set, show exactly one toast each.                *)
C16_OneToastPerOutcome ==
    [][/\ \A o \in OutcomesUI :
            SettleStep(o)
              => LET type ==
                       IF IsSuccess(o)
                       THEN (IF dom'.statusBadge = "playing" THEN "success" ELSE "info")
                       ELSE IF ReconciledAsUnauthorized(o) THEN "warning"
                       ELSE IF HandledAsNetworkFailure(o) /\ retryTimers' # retryTimers
                            THEN "warning"
                       ELSE "error"
                 IN  toasts' = toasts (+) SetToBag({NewToast(type)})
       /\ (Offline \/ (networkError /\ OnlineStep))
            => \E type \in ToastTypes : toasts' = toasts (+) SetToBag({NewToast(type)})]_vars

(* the error toast of a network failure past the retry budget is on screen  *)
C16_Witness ==
    /\ retryCount > maxRetries
    /\ \E t \in BagToSet(toasts) : t.type = "error" /\ t.attached
    /\ BagCardinality(toasts) = 1

(* C18: a successful snapshot whose durationMs is zero, negative or missing *)
(* leaves the progress indicator hidden, whatever was shown before.         *)
C18_NoDurationHidesProgress ==
    [][\A o \in OutcomesUI :
          (/\ IsSuccess(o)
           /\ SettleStep(o)
           /\ \/ ~Has(o.response.body.json, "durationMs")
              \/ o.response.body.json.durationMs <= 0)
            => dom'.progressContainer = "none"]_vars

(* a playing track without a duration has been reconciled over a display    *)
(* that showed a progress                                                    *)
C18_Witness ==
    /\ dom.statusBadge = "playing"
    /\ dom.progressContainer = "none"
    /\ dom.currentTime # Markup

RECURSIVE Gcd(_, _)
Gcd(a, b) == IF b = 0 THEN a ELSE Gcd(b, a % b)

(* two fractions with non-negative numerator and positive denominator are equal *)
SameRatio(f, g) ==
    /\ f.num \div Gcd(f.num, f.den) = g.num \div Gcd(g.num, g.den)
    /\ f.den \div Gcd(f.num, f.den) = g.den \div Gcd(g.num, g.den)

Clamp(x, lo, hi) == IF x < lo THEN lo ELSE IF x > hi THEN hi ELSE x

(* C19: after a successful snapshot with durationMs > 0 the width of the    *)
(* progress fill is progressMs / durationMs clamped to [0, 1], as a         *)
(* percentage: never below 0% and never above 100%.                         *)
C19_ProgressRatioClamped ==
    [][\A o \in OutcomesUI :
          (/\ IsSuccess(o)
           /\ SettleStep(o)
           /\ Has(o.response.body.json, "durationMs")
           /\ o.response.body.json.durationMs > 0)
            => LET data == o.response.body.json
               IN  /\ dom'.progressFill.num >= 0
                   /\ dom'.progressFill.num <= 100 * dom'.progressFill.den
                   /\ SameRatio(dom'.progressFill,
                                [num |-> 100 * Clamp(data.progressMs, 0, data.durationMs),
                                 den |-> data.durationMs])]_vars

----------------------------------------------------------------------------
(* The life of a toast.  A toast is written only by its own closures (the   *)
(* close button, the auto-dismiss timer, the detach timers), so one toast   *)
(* is followed at a time: the next one is shown when the last has gone.     *)
(* Timers that are pending fire.                                            *)

NoToast == toasts = EmptyBag

NextToast ==
    \/ Startup
    \/ NoToast /\ Idle /\ PollTick
    \/ NoToast /\ \E o \in Outcomes : Settle(o)
    \/ NoToast /\ Online
    \/ NoToast /\ Offline
    \/ \E t \in BagToSet(toasts) : ToastAutoDismiss(t)
    \/ \E t \in BagToSet(toasts) : ToastClose(t)
    \/ \E t \in BagToSet(toasts) : ToastDetach(t)

SpecToast ==
    /\ Init
    /\ [][NextToast]_vars
    /\ WF_vars(\E t \in BagToSet(toasts) : ToastAutoDismiss(t))
    /\ WF_vars(\E t \in BagToSet(toasts) : ToastDetach(t))

(* C17: a toast that is shown is eventually out of the container, whether   *)
(* the user closes it or not, and removeChild runs at most once on it, also *)
(* when both the close button and the auto-dismiss timer have fired.        *)
C17_ToastRemovedOnce ==
    /\ [](\A t \in BagToSet(toasts) :
             /\ t.removals <= 1
             /\ t.removeTimers > 0 => detachToast(t).removals <= 1)
    /\ (\E t \in BagToSet(toasts) : t.attached)
         ~> (\A t \in BagToSet(toasts) : ~t.attached)

(* the user closed the toast, it was detached, and then its auto-dismiss    *)
(* timer fired: a second detach timer is pending on the detached toast      *)
C17_Witness ==
    \E t \in BagToSet(toasts) :
        /\ ~t.attached
        /\ t.removals = 1
        /\ ~t.autoTimer
        /\ t.removeTimers > 0

----------------------------------------------------------------------------
(* formatTime over a range of times: the first poll is answered with a      *)
(* playing track whose progressMs and durationMs are drawn from TimeInputs  *)
(* (second, ten-second, minute, ten-minute and hour boundaries and the      *)
(* millisecond before each).                                                *)

TimeInputs ==
    {0, 999, 1000, 5000, 9999, 10000, 59999, 60000, 65000, 599999, 600000, 3599999, 3600000}

OutcomesTime ==
    { [kind |-> "response",
       response |-> [status |-> 200, statusText |-> <<>>,
                     body |-> [json |-> [isPlaying |-> TRUE, title |-> <<"A">>,
                                         artist |-> <<"B">>, progressMs |-> p,
                                         durationMs |-> d]]]] :
        p \in TimeInputs, d \in TimeInputs \ {0} }

NextTime ==
    \/ Startup
    \/ \E o \in OutcomesTime : Settle(o)

SpecTime == Init /\ [][NextTime]_vars

(* minutes, a colon, seconds as two digits *)
MinutesColonSeconds(ms) ==
    NatToString(ms \div 60000)
      \o <<":">>
      \o <<DigitChar(((ms \div 1000) % 60) \div 10), DigitChar(((ms \div 1000) % 60) % 10)>>

(* C20: for ms >= 0 formatTime(ms) is floor(ms / 60000), a colon and        *)
(* floor(ms / 1000) mod 60 as two digits (65000 -> 1:05, 5000 -> 0:05,      *)
(* 600000 -> 10:00), the seconds always within 00..59.                      *)
C20_FormatTime ==
    [][\A o \in OutcomesTime :
          SettleStep(o)
            => /\ dom'.currentTime = MinutesColonSeconds(o.response.body.json.progressMs)
               /\ dom'.totalTime = MinutesColonSeconds(o.response.body.json.durationMs)
               /\ formatTime(65000) = <<"1", ":", "0", "5">>
               /\ formatTime(5000) = <<"0", ":", "0", "5">>
               /\ formatTime(600000) = <<"1", "0", ":", "0", "0">>
               /\ \A f \in {dom'.currentTime, dom'.totalTime} :
                     /\ Len(f) >= 4
                     /\ f[Len(f) - 2] = ":"
                     /\ f[Len(f) - 1] \in {"0", "1", "2", "3", "4", "5"}
                     /\ f[Len(f)] \in {"0", "1", "2", "3", "4", "5", "6", "7", "8", "9"}]_vars

(* 65000 ms of 600000 ms are displayed *)
C20_Witness ==
    /\ dom.currentTime = <<"1", ":", "0", "5">>
    /\ dom.totalTime = <<"1", "0", ":", "0", "0">>
    /\ dom.progressContainer = "block"

----------------------------------------------------------------------------
(* C21: startup issues one request at once and arms the poll interval,      *)
(* which was not armed before; each tick of the interval issues one         *)
(* request and leaves the interval armed.                                   *)
C21_OnePollPerTick ==
    [][/\ Startup
            => /\ ~pollTimerActive
               /\ pollTimerActive'
               /\ inflight = 0
               /\ inflight' = 1
       /\ PollTick
            => /\ pollTimerActive'
               /\ inflight' = inflight + 1]_vars

(* the startup poll and two ticks have each issued a request *)
C21_Witness ==
    /\ started
    /\ ~tornDown
    /\ pollTimerActive
    /\ inflight = 3
    /\ retryTimers = EmptyBag
    /\ toasts = EmptyBag

----------------------------------------------------------------------------
(* Fullscreen.  requestFullscreen and exitFullscreen are asynchronous: the  *)
(* page's requests queue up and the browser carries them out one by one,    *)
(* firing fullscreenchange when document.fullscreenElement changes.  The    *)
(* browser may refuse a request to enter, and leaves fullscreen by itself   *)
(* when the user presses Escape.                                            *)

MaxFullscreenRequests == 6

Keys == {"f", "F", "1", "2", "3"}

(* what a click inside the projector can land on: the bare surface or one   *)
(* of the controls the listener tests with closest()                        *)
ClickTargets == {"projector", "fullscreen-toggle", "connect-btn", "retry-btn"}

toggleFullscreen(f) ==
    IF ~f.element
    THEN [f EXCEPT !.requests = Append(@, "enter")]
    ELSE [f EXCEPT !.requests = Append(@, "exit")]

updateFullscreenIcon(f) ==
    [f EXCEPT !.icon = IF f.element THEN "exit-fullscreen" ELSE "enter-fullscreen"]

updateFullscreenUI(f) ==
    [updateFullscreenIcon(f) EXCEPT !.controls = IF f.element THEN "none" ELSE "block"]

(* the keydown listener of the document *)
keydown(f, key) ==
    IF key = "f" \/ key = "F" THEN toggleFullscreen(f) ELSE f

(* the click listener of the fullscreen toggle button *)
toggleClick(f) == toggleFullscreen(f)

(* mutant of projectorClick: the closest() tests are dropped *)
projectorClickAnywhere(f, target) ==
    IF ~f.element THEN toggleFullscreen(f) ELSE f

(* the click listener of the projector *)
projectorClick(f, target) ==
    IF target \in {"fullscreen-toggle", "connect-btn", "retry-btn"} THEN f
    ELSE IF ~f.element THEN toggleFullscreen(f)
    ELSE f

(* a click event: the listeners of the target, then, bubbling, the          *)
(* projector's                                                              *)
click(f, target) ==
    projectorClick(IF target = "fullscreen-toggle" THEN toggleClick(f) ELSE f, target)

(* the background: the galaxy video is the only one and is always active    *)
activeScene == "galaxy"

FullscreenFrame ==
    UNCHANGED <<started, tornDown, pollTimerActive, videoTimerActive, inflight, retryCount,
                networkError, isConnected, retryTimers, toasts, dom, failRun, order, galaxy>>

KeyDown(key) ==
    /\ started
    /\ Len(keydown(fullscreen, key).requests) <= MaxFullscreenRequests
    /\ fullscreen' = keydown(fullscreen, key)
    /\ FullscreenFrame

(* the toggle is hidden while in fullscreen (updateFullscreenUI) and cannot *)
(* be clicked then                                                          *)
Click(target) ==
    /\ started
    /\ target = "fullscreen-toggle" => fullscreen.controls # "none"
    /\ Len(click(fullscreen, target).requests) <= MaxFullscreenRequests
    /\ fullscreen' = click(fullscreen, target)
    /\ FullscreenFrame

(* the browser carries out the oldest request; fullscreenchange fires if    *)
(* document.fullscreenElement changed                                       *)
FullscreenCarryOut ==
    /\ fullscreen.requests # <<>>
    /\ LET wanted == Head(fullscreen.requests) = "enter"
           f == [fullscreen EXCEPT !.requests = Tail(@), !.element = wanted]
       IN  fullscreen' = IF wanted # fullscreen.element THEN updateFullscreenUI(f) ELSE f
    /\ FullscreenFrame

(* the browser refuses the oldest request *)
FullscreenRefuse ==
    /\ fullscreen.requests # <<>>
    /\ fullscreen' = [fullscreen EXCEPT !.requests = Tail(@)]
    /\ FullscreenFrame

(* the user presses Escape in fullscreen: the browser leaves fullscreen *)
EscapeKey ==
    /\ fullscreen.element
    /\ fullscreen' = updateFullscreenUI([fullscreen EXCEPT !.element = FALSE])
    /\ FullscreenFrame

NextFullscreen ==
    \/ Startup
    \/ \E key \in Keys : KeyDown(key)
    \/ \E target \in ClickTargets : Click(target)
    \/ FullscreenCarryOut
    \/ FullscreenRefuse
    \/ EscapeKey

SpecFullscreen == Init /\ [][NextFullscreen]_vars

(* C22: f or F requests to enter fullscreen when the document is not in     *)
(* fullscreen and to exit when it is; a click on the projector surface      *)
(* never requests to exit; a click on the connect or retry control makes no *)
(* request; a click on the fullscreen toggle makes the toggle's own request *)
(* and no second one from the projector's listener.                         *)
C22_FullscreenRequests ==
    [][/\ \A key \in {"f", "F"} :
            KeyDown(key)
              => fullscreen'.requests
                   = Append(fullscreen.requests,
                            IF fullscreen.element THEN "exit" ELSE "enter")
       /\ Click("projector")
            => /\ ~fullscreen.element
               /\ fullscreen'.requests = Append(fullscreen.requests, "enter")
       /\ \A target \in {"connect-btn", "retry-btn"} :
            Click(target) => fullscreen'.requests = fullscreen.requests
       /\ Click("fullscreen-toggle")
            => Len(fullscreen'.requests) = Len(fullscreen.requests) + 1]_vars

(* f was pressed in fullscreen: the document is in fullscreen and a request *)
(* to exit is the oldest pending                                            *)
C22_Witness ==
    /\ fullscreen.element
    /\ fullscreen.controls = "none"
    /\ fullscreen.requests # <<>>
    /\ Head(fullscreen.requests) = "exit"

(* the scene the documentation assigns to a key *)
SceneOfKey(key) ==
    CASE key = "1" -> "gradient"
      [] key = "2" -> "blobs"
      [] key = "3" -> "galaxy"
      [] OTHER -> activeScene

(* C23: pressing 1, 2 or 3 makes Gradient, Blobs or Galaxy the active       *)
(* background scene, in fullscreen and outside it: no press of one of these *)
(* keys leaves another scene active.                                        *)
C23_SceneKeys ==
    started =>
        \A key \in {"1", "2", "3"} :
            ~ENABLED (KeyDown(key) /\ activeScene # SceneOfKey(key))

----------------------------------------------------------------------------
(* C24: at any time at most one retry timer is pending.                     *)
C24_OneRetryTimer == BagCardinality(retryTimers) <= 1

(* C25: the error overlay does not outlive the failure: when a poll settles *)
(* as a success or as a 401 the error overlay is hidden afterwards.         *)
C25_OverlayHiddenAfterRecovery ==
    [][\A o \in Outcomes :
          (SettleCounted(o) /\ (IsSuccess(o) \/ Is401(o)))
             => dom'.errorOverlay # "flex"]_vars

(* the outcomes that mean Unauthorized: HTTP 401, or a 2xx body whose error *)
(* is "unauthorized"                                                        *)
IsUnauthorized(o) ==
    \/ Is401(o)
    \/ IsErrorBody(o) /\ o.response.body.json.error = unauthorized

PanelsUnchanged ==
    /\ dom'.mainCard = dom.mainCard
    /\ dom'.connectSection = dom.connectSection

(* C28: a successful poll leaves the track panel visible and the connect    *)
(* panel hidden, an Unauthorized outcome leaves the connect panel visible   *)
(* and the track panel hidden, and network failures, other errors and the   *)
(* online and offline events leave both panels as they were.                *)
C28_PanelsFollowLastOutcome ==
    [][/\ \A o \in Outcomes :
            SettleCounted(o)
              => IF IsSuccess(o)
                 THEN dom'.mainCard = "block" /\ dom'.connectSection = "none"
                 ELSE IF IsUnauthorized(o)
                 THEN dom'.mainCard = "none" /\ dom'.connectSection = "block"
                 ELSE PanelsUnchanged
       /\ (OnlineCounted \/ Offline) => PanelsUnchanged]_vars

(* C27: whenever the state is NothingPlaying the progress indicator is      *)
(* hidden.                                                                  *)
C27_NothingPlayingHidesProgress ==
    dom.statusBadge = "nothing-playing" => dom.progressContainer = "none"

----------------------------------------------------------------------------
(* Which poll wrote the display.  The polls are numbered in the order       *)
(* fetchNowPlaying issues them; order.pending holds the polls whose         *)
(* response has not arrived and order.written the poll whose response was   *)
(* handled last.  Responses arrive in any order.                            *)

MaxIssued == 3

issue(r) == [r EXCEPT !.issued = @ + 1, !.pending = @ \cup {r.issued + 1}]

IssueAtStartup ==
    /\ StartupStep
    /\ order' = issue(order)

IssueAtTick ==
    /\ order.issued < MaxIssued
    /\ PollTickStep
    /\ order' = issue(order)

SettleOrdered(id, o) ==
    /\ id \in order.pending
    /\ SettleStep(o)
    /\ order' = [order EXCEPT !.pending = @ \ {id}, !.written = id]
    /\ UNCHANGED failRun

NextOrder ==
    \/ IssueAtStartup
    \/ IssueAtTick
    \/ \E id \in order.pending : \E o \in Outcomes : SettleOrdered(id, o)
    \/ \E t \in BagToSet(toasts) : ToastAutoDismiss(t)
    \/ \E t \in BagToSet(toasts) : ToastClose(t)
    \/ \E t \in BagToSet(toasts) : ToastDetach(t)

SpecOrder == Init /\ [][NextOrder]_vars

(* C26: once every poll in flight has resolved, the display is the one      *)
(* written from the poll that was issued last.                              *)
C26_LastIssuedPollWins ==
    (order.issued > 0 /\ order.pending = {}) => order.written = order.issued

----------------------------------------------------------------------------
(* The galaxy scene module: a singleton GalaxyScene driven through the      *)
(* exported initGalaxy, startGalaxy, stopGalaxy and disposeGalaxy.          *)
(* galaxy.canvases counts the renderer canvases that are children of the    *)
(* container, galaxy.frames holds the ids of the animation-frame callbacks  *)
(* the browser has pending, galaxy.clock the time in ms the browser passes  *)
(* to them, galaxy.returned is what the last initGalaxy call returned.      *)

MaxCanvases == 3

MaxFrameId == 3

MaxClock == 40

targetFPS == 60

(* the time between two animation frames, in ms *)
FrameGaps == {10, 20}

(* what initGalaxy meets: no WebGL; WebGLRenderer throws; the scene is set  *)
(* up but ResizeObserver is not defined; everything works                   *)
InitEnvs == {"no-webgl", "renderer-throws", "observer-throws", "ok"}

checkWebGLSupport(env) == env # "no-webgl"

(* new THREE.WebGLRenderer, then the canvas is appended to the container *)
setupRenderer(g) == [g EXCEPT !.renderer = TRUE, !.canvases = @ + 1]

setupScene(g) == [g EXCEPT !.scene = TRUE]

setupResizeHandler(g) == [g EXCEPT !.resizeObserver = TRUE]

initGalaxy(g, env) ==
    IF g.isInitialized THEN [g EXCEPT !.returned = "undefined"]
    ELSE
      LET a == [g EXCEPT !.container = TRUE]
      IN  IF ~checkWebGLSupport(env) THEN [a EXCEPT !.returned = "false"]
          ELSE IF env = "renderer-throws" THEN [a EXCEPT !.returned = "false"]
          ELSE IF env = "observer-throws"
               THEN [setupScene(setupRenderer(a)) EXCEPT !.returned = "false"]
          ELSE [setupResizeHandler(setupScene(setupRenderer(a)))
                  EXCEPT !.isInitialized = TRUE, !.returned = "true"]

FreshFrameIds(g) == (1..MaxFrameId) \ (g.frames \cup {g.animationId})

(* requestAnimationFrame returns an id no pending callback has *)
requestAnimationFrame(g) ==
    LET id == CHOOSE n \in FreshFrameIds(g) : \A m \in FreshFrameIds(g) : n <= m
    IN  [g EXCEPT !.animationId = id, !.frames = @ \cup {id}]

(* currentTime - lastFrameTime < frameInterval, with frameInterval =       *)
(* 1000 / targetFPS: the frame is skipped; otherwise it is rendered         *)
animate(g, currentTime) ==
    IF ~g.isInitialized THEN g
    ELSE IF (currentTime - g.lastFrameTime) * targetFPS < 1000
    THEN requestAnimationFrame(g)
    ELSE requestAnimationFrame([g EXCEPT !.lastFrameTime = currentTime])

(* mutant of startGalaxy: the animationId test is dropped *)
startGalaxyUnguarded(g) ==
    IF ~g.isInitialized THEN g ELSE animate(g, 0)

startGalaxy(g) ==
    IF ~g.isInitialized \/ g.animationId # 0 THEN g ELSE animate(g, 0)

(* cancelAnimationFrame of an id that is not pending does nothing *)
stopGalaxy(g) ==
    IF g.animationId # 0
    THEN [g EXCEPT !.frames = @ \ {g.animationId}, !.animationId = 0]
    ELSE g

(* renderer.dispose() frees the WebGL resources; the canvas stays where it  *)
(* was appended                                                             *)
disposeGalaxy(g) ==
    [stopGalaxy(g) EXCEPT !.resizeObserver = FALSE,
                          !.renderer = FALSE,
                          !.scene = FALSE,
                          !.isInitialized = FALSE]

GalaxyFrame ==
    UNCHANGED <<started, tornDown, pollTimerActive, videoTimerActive, inflight, retryCount,
                networkError, isConnected, retryTimers, toasts, dom, failRun, order,
                fullscreen>>

InitGalaxy(env) ==
    /\ initGalaxy(galaxy, env).canvases <= MaxCanvases
    /\ galaxy' = initGalaxy(galaxy, env)
    /\ GalaxyFrame

StartGalaxy ==
    /\ FreshFrameIds(galaxy) # {}
    /\ galaxy' = startGalaxy(galaxy)
    /\ GalaxyFrame

(* the browser runs a pending animation-frame callback *)
AnimationFrame(id, gap) ==
    /\ id \in galaxy.frames
    /\ FreshFrameIds(galaxy) # {}
    /\ galaxy.clock + gap <= MaxClock
    /\ galaxy' = animate([galaxy EXCEPT !.frames = @ \ {id}, !.clock = @ + gap],
                         galaxy.clock + gap)
    /\ GalaxyFrame

StopGalaxy ==
    /\ galaxy' = stopGalaxy(galaxy)
    /\ GalaxyFrame

DisposeGalaxy ==
    /\ galaxy' = disposeGalaxy(galaxy)
    /\ GalaxyFrame

NextGalaxy ==
    \/ \E env \in InitEnvs : InitGalaxy(env)
    \/ StartGalaxy
    \/ \E id \in galaxy.frames : \E gap \in FrameGaps : AnimationFrame(id, gap)
    \/ StopGalaxy
    \/ DisposeGalaxy

SpecGalaxy == Init /\ [][NextGalaxy]_vars

(* C29: the container holds at most one renderer canvas, and none after     *)
(* disposeGalaxy or after an initGalaxy call that returned false.           *)
C29_AtMostOneCanvas ==
    [][/\ galaxy'.canvases <= 1
       /\ DisposeGalaxy => galaxy'.canvases = 0
       /\ \A env \in InitEnvs :
            (InitGalaxy(env) /\ galaxy'.returned = "false") => galaxy'.canvases = 0]_vars

(* C30: initGalaxy returns true when the scene is initialized as the call   *)
(* returns, also when it was initialized before the call, and false when    *)
(* it is not.                                                               *)
C30_InitGalaxyReturn ==
    [][\A env \in InitEnvs :
          InitGalaxy(env)
            => galaxy'.returned = IF galaxy'.isInitialized THEN "true" ELSE "false"]_vars

(* C31: at most one animation-frame callback is pending at any time;       *)
(* startGalaxy on a running or an uninitialized scene schedules none; after *)
(* stopGalaxy or disposeGalaxy none is pending, and none becomes pending    *)
(* again except by startGalaxy on an initialized scene.                     *)
C31_OneFramePending ==
    /\ [](/\ Cardinality(galaxy.frames) <= 1
          /\ galaxy.frames \subseteq {galaxy.animationId}
          /\ (~galaxy.isInitialized \/ galaxy.animationId # 0)
                => startGalaxy(galaxy).frames = galaxy.frames
          /\ stopGalaxy(galaxy).frames = {}
          /\ disposeGalaxy(galaxy).frames = {})
    /\ [][/\ (StopGalaxy \/ DisposeGalaxy) => galaxy'.frames = {}
          /\ (galaxy.frames = {} /\ galaxy'.frames # {})
                => (StartGalaxy /\ galaxy.isInitialized)]_vars

(* the loop is running: a frame was rendered, a later callback ran and was  *)
(* skipped by the frame-rate limit, and the next callback is pending        *)
C31_Witness ==
    /\ galaxy.isInitialized
    /\ galaxy.lastFrameTime > 0
    /\ galaxy.clock > galaxy.lastFrameTime
    /\ galaxy.frames = {galaxy.animationId}
    /\ galaxy.animationId # 0

====
